---- MODULE Spec2Model ----
(***************************************************************************)
(* Projection engines of the three calculator pages:                       *)
(*   pages/2 Family Legacy      - drawdown loop                            *)
(*   pages/3 Wealth Accelerator - accumulation loop                        *)
(*   pages/1 Personal Finance   - net-worth loop                           *)
(* One script run is modelled: the widgets' values are drawn in Init, the  *)
(* setup statement block and every iteration of the loop are actions.      *)
(* Python floats are modelled as exact rationals <<n, d>>, d > 0, in       *)
(* lowest terms.  Money is in thousands of AUD.                            *)
(***************************************************************************)
EXTENDS Integers, Sequences, FiniteSets, TLC

VARIABLES page, cfg, today, today2, pc, run, twin

vars == <<page, cfg, today, today2, pc, run, twin>>

(***************************************************************************)
(* Bounds of the model.                                                    *)
(***************************************************************************)
\* iterations of the drawdown loop (the code runs years = 50)
LegacyYears == 6
\* rows of the growth-rate editor (the code builds 50)
TableRows == 6
\* longest accumulation run (the slider offers 5..30 years)
WAYears == 3
\* longest net-worth run (the slider offers 5..40 years)
PFYears == 3

(***************************************************************************)
(* Exact arithmetic standing for Python's float operators.                 *)
(***************************************************************************)
Abs(n) == IF n < 0 THEN -n ELSE n

RECURSIVE GCD(_, _)
GCD(a, b) == IF b = 0 THEN a ELSE GCD(b, a % b)

Rat(n, d) ==
  LET s == IF d < 0 THEN -1 ELSE 1
      g == GCD(Abs(n), Abs(d))
  IN  IF n = 0 THEN <<0, 1>> ELSE <<(s * n) \div g, (s * d) \div g>>

RInt(n) == <<n, 1>>

RNeg(a) == <<-a[1], a[2]>>

RAdd(a, b) ==
  LET g == GCD(a[2], b[2])
  IN  Rat(a[1] * (b[2] \div g) + b[1] * (a[2] \div g), (a[2] \div g) * b[2])

RSub(a, b) == RAdd(a, RNeg(b))

RMul(a, b) ==
  LET g1 == GCD(Abs(a[1]), b[2])
      g2 == GCD(Abs(b[1]), a[2])
  IN  IF a[1] = 0 \/ b[1] = 0 THEN <<0, 1>>
      ELSE <<(a[1] \div g1) * (b[1] \div g2), (a[2] \div g2) * (b[2] \div g1)>>

RInv(a) == IF a[1] < 0 THEN <<-a[2], -a[1]>> ELSE <<a[2], a[1]>>

RDiv(a, b) == RMul(a, RInv(b))

\* a < b, by whole parts first and then by the remainders' reciprocals
RECURSIVE RLt(_, _)
RLt(a, b) ==
  LET qa == a[1] \div a[2]
      qb == b[1] \div b[2]
      ra == a[1] % a[2]
      rb == b[1] % b[2]
  IN  IF qa # qb THEN qa < qb
      ELSE IF rb = 0 THEN FALSE
      ELSE IF ra = 0 THEN TRUE
      ELSE RLt(<<b[2], rb>>, <<a[2], ra>>)

RLe(a, b) == ~RLt(b, a)

RECURSIVE RPow(_, _)
RPow(a, k) == IF k = 0 THEN <<1, 1>> ELSE RMul(a, RPow(a, k - 1))

Zero == <<0, 1>>
One == <<1, 1>>

(***************************************************************************)
(* The date of the run.  A date is its number of days since GENESIS_DATE   *)
(* (2009-01-03) and its calendar year.                                     *)
(***************************************************************************)
Dates == { [days |-> 6511, year |-> 2026], [days |-> 6876, year |-> 2027] }

(***************************************************************************)
(* Power law.  10^-17 * days^5.82 (USD, thousands) at days = 6511 + 365*k  *)
(* for k = 0, 1, ..., each value rounded to the nearest number 2^a 3^b 5^c *)
(* (within 2.3% of 156.8, 215.4, 291.1, 387.6, 509.1, 660.7, 847.8, ...).  *)
(***************************************************************************)
PowerLawTable ==
  << 160, 216, 288, 384, 512, 648, 864, 1080, 1350, 1728, 2048, 2560, 3125,
     3750, 4608, 5400 >>

PowerLawUSD(days) == RInt(PowerLawTable[((days - 6511) \div 365) + 1])

get_power_law_price(days_since_genesis, aud_usd) ==
  RDiv(PowerLawUSD(days_since_genesis), aud_usd)

\* 10 ** (sd * PL_SD_LOG) with PL_SD_LOG = 0.35, for the slider's end and mid points
sd_to_multiplier(sd) ==
  CASE sd = 0 -> One
    [] sd = 2 -> RInt(5)
    [] sd = -2 -> Rat(1, 5)

(***************************************************************************)
(* Growth-rate editor: a sequence of rows [Year, Growth].                  *)
(***************************************************************************)
GrowthTable(f, missing) ==
  LET RECURSIVE Build(_)
      Build(y) ==
        IF y > TableRows THEN << >>
        ELSE (IF y \in missing THEN << >> ELSE << [Year |-> y, Growth |-> f[y]] >>)
             \o Build(y + 1)
  IN  Build(1)

FlatGrowth == [y \in 1..(TableRows + 1) |-> 0]
BoomBust == [y \in 1..(TableRows + 1) |-> IF y % 2 = 1 THEN 100 ELSE -50]

GrowthTables ==
  { GrowthTable(FlatGrowth, {}),
    GrowthTable(BoomBust, {}),
    GrowthTable(FlatGrowth, {2}),
    GrowthTable(BoomBust, {3, 4}) }

\* try: g = edited_growth.loc[edited_growth['Year'] == y, 'Growth %'].values[0] / 100
\* except: g = 0.05
GrowthRate(edited_growth, y) ==
  LET hits == { i \in 1..Len(edited_growth) : edited_growth[i].Year = y }
  IN  IF hits = {} THEN Rat(5, 100)
      ELSE Rat(edited_growth[CHOOSE i \in hits : \A j \in hits : i <= j].Growth, 100)

(***************************************************************************)
(* Family Legacy: the drawdown loop.                                       *)
(***************************************************************************)
EventTables ==
  { << >>,
    << [Year |-> 2, Amount |-> 40] >>,
    << [Year |-> 2, Amount |-> 20], [Year |-> 2, Amount |-> 20],
       [Year |-> 4, Amount |-> 100] >>,
    << [Year |-> 3, Amount |-> -400] >> }

\* events_lookup = edited_events.groupby('Year')['Amount'].sum().to_dict()
\* events_lookup.get(y, 0)
RECURSIVE SumAmounts(_, _)
SumAmounts(edited_events, y) ==
  IF edited_events = << >> THEN 0
  ELSE (IF Head(edited_events).Year = y THEN Head(edited_events).Amount ELSE 0)
       + SumAmounts(Tail(edited_events), y)

events_lookup(edited_events, y) == SumAmounts(edited_events, y)

LegacyConfigs ==
  [ start_price : {100},
    initial_btc : {1, 2},
    parents_spend : {20, 200},
    num_kids : {2},
    kids_start_year : {2},
    kid_allowance : {0, 20},
    inflation : {0, 10},
    tax_rate : {0, 20, 100},
    safe_withdraw_rate : {10, 25},
    model_mode : {"Manual Cycles (Custom %)"},
    edited_growth : GrowthTables,
    aud_usd : {65},
    pl_scenario : {0},
    edited_events : EventTables ]
  \cup
  [ start_price : {100},
    initial_btc : {1, 2},
    parents_spend : {20, 200},
    num_kids : {2},
    kids_start_year : {2},
    kid_allowance : {0, 20},
    inflation : {0},
    tax_rate : {0, 20, 100},
    safe_withdraw_rate : {10, 25},
    model_mode : {"Power Law Formula"},
    edited_growth : {<< >>},
    aud_usd : {65},
    pl_scenario : {0, 2},
    edited_events : EventTables ]

LegacyRow0(c) ==
  [ Year |-> 0, BTC |-> RInt(c.initial_btc), ModeledPrice |-> RInt(c.start_price),
    Value |-> RMul(RInt(c.initial_btc), RInt(c.start_price)),
    ParentCost |-> Zero, KidsCost |-> Zero, LumpSums |-> Zero, TaxPaid |-> Zero,
    TotalDrawdown |-> Zero,
    FITarget |-> RMul(RInt(c.parents_spend), RInt(c.safe_withdraw_rate)),
    Status |-> "Sustainable" ]

\* Python's None where a year may stand: a year y is the sequence <<y>>
None == << >>

\* lines 129-133
LegacyStart(c, t) ==
  [ y |-> 0, start_days |-> t.days,
    curr_btc |-> RInt(c.initial_btc), curr_price |-> RInt(c.start_price),
    status |-> "Sustainable", fail_year |-> None,
    fi_year |-> "Not in 50 Years", fi_found |-> FALSE,
    history |-> << LegacyRow0(c) >> ]

\* lines 136-143
LegacyPrice(c, r, y) ==
  IF c.model_mode = "Manual Cycles (Custom %)"
  THEN RMul(r.history[Len(r.history)].ModeledPrice,
            RAdd(One, GrowthRate(c.edited_growth, y)))
  ELSE RMul(get_power_law_price(r.start_days + y * 365, Rat(c.aud_usd, 100)),
            sd_to_multiplier(c.pl_scenario))

\* line 151 with the else branch selling nothing
GrossSellZeroed(total_net_needed, tax_rate) ==
  IF RLt(tax_rate, One) THEN RDiv(total_net_needed, RSub(One, tax_rate))
  ELSE Zero

\* line 151
GrossSell(total_net_needed, tax_rate) ==
  IF RLt(tax_rate, One) THEN RDiv(total_net_needed, RSub(One, tax_rate))
  ELSE total_net_needed

\* line 152 with the operands exchanged
TaxPaidNetLessGross(gross_sell, total_net_needed) ==
  RSub(total_net_needed, gross_sell)

\* line 152
TaxPaid(gross_sell, total_net_needed) == RSub(gross_sell, total_net_needed)

\* line 155 with <= for <
DepletedAtZero(curr_btc) == RLe(curr_btc, Zero)

\* line 155: if curr_btc < 0
Depleted(curr_btc) == RLt(curr_btc, Zero)

\* line 155 without its curr_btc = 0
Unclamped(curr_btc) == curr_btc

\* line 155: curr_btc = 0
Clamp(curr_btc) == IF Depleted(curr_btc) THEN Zero ELSE curr_btc

\* line 157 without the one-shot flag
SolvencyRefires(fi_found, portfolio_val, fi_target, status) ==
  RLe(fi_target, portfolio_val) /\ status = "Sustainable"

\* line 157
SolvencyFires(fi_found, portfolio_val, fi_target, status) ==
  ~fi_found /\ RLe(fi_target, portfolio_val) /\ status = "Sustainable"

\* line 155 recording the first year in which the holdings run out
FailYearOfFirstFailure(status, y, fail_year) ==
  IF fail_year = None THEN << y >> ELSE fail_year

\* line 155: fail_year = y if status == "Sustainable" else fail_year
FailYear(status, y, fail_year) ==
  IF status = "Sustainable" THEN << y >> ELSE fail_year

\* line 145
IdxRate(inflation, y) == RPow(RAdd(One, inflation), y)

\* line 147 with the allowance indexed from the year the kids start
CostKidsIndexedFromStart(c, y) ==
  IF y >= c.kids_start_year
  THEN RMul(RInt(c.kid_allowance * c.num_kids),
            IdxRate(Rat(c.inflation, 100), y - c.kids_start_year))
  ELSE Zero

\* line 147
CostKids(c, y) ==
  IF y >= c.kids_start_year
  THEN RMul(RInt(c.kid_allowance * c.num_kids), IdxRate(Rat(c.inflation, 100), y))
  ELSE Zero

\* lines 135-159, one iteration
LegacyIter(c, r) ==
  LET y == r.y + 1
      curr_price == LegacyPrice(c, r, y)
      idx_rate == IdxRate(Rat(c.inflation, 100), y)
      cost_parents == RMul(RInt(c.parents_spend), idx_rate)
      cost_kids == CostKids(c, y)
      cost_lump == RMul(RInt(events_lookup(c.edited_events, y)), idx_rate)
      total_net_needed == RAdd(RAdd(cost_parents, cost_kids), cost_lump)
      gross_sell == GrossSell(total_net_needed, Rat(c.tax_rate, 100))
      tax_paid == TaxPaid(gross_sell, total_net_needed)
      btc_sold == RDiv(gross_sell, curr_price)
      btc1 == RSub(r.curr_btc, btc_sold)
      failed == Depleted(btc1)
      curr_btc == Clamp(btc1)
      status == IF failed THEN "Failed" ELSE r.status
      fail_year == IF failed THEN FailYear(status, y, r.fail_year) ELSE r.fail_year
      fi_target == RMul(total_net_needed, RInt(c.safe_withdraw_rate))
      portfolio_val == RMul(curr_btc, curr_price)
      fires == SolvencyFires(r.fi_found, portfolio_val, fi_target, status)
  IN  [ r EXCEPT
          !.y = y, !.curr_btc = curr_btc, !.curr_price = curr_price,
          !.status = status, !.fail_year = fail_year,
          !.fi_year = IF fires THEN y ELSE r.fi_year,
          !.fi_found = IF fires THEN TRUE ELSE r.fi_found,
          !.history = Append(r.history,
            [ Year |-> y, BTC |-> curr_btc, ModeledPrice |-> curr_price,
              Value |-> portfolio_val, ParentCost |-> cost_parents,
              KidsCost |-> cost_kids, LumpSums |-> cost_lump, TaxPaid |-> tax_paid,
              TotalDrawdown |-> total_net_needed, FITarget |-> fi_target,
              Status |-> status ]) ]

LegacySetup ==
  /\ page = "legacy" /\ pc = "start"
  /\ run' = LegacyStart(cfg, today)
  /\ twin' = LegacyStart(cfg, today2)
  /\ pc' = "loop"
  /\ UNCHANGED <<page, cfg, today, today2>>

LegacyYear ==
  /\ page = "legacy" /\ pc = "loop" /\ run.y < LegacyYears
  /\ run' = LegacyIter(cfg, run)
  /\ twin' = LegacyIter(cfg, twin)
  /\ UNCHANGED <<page, cfg, today, today2, pc>>

\* line 164
fail_rows(history) == SelectSeq(history, LAMBDA row : row.Status = "Failed")

\* lines 164-172: the four metrics under the ledger
LegacyMetrics(r) ==
  LET has_failed == fail_rows(r.history) # << >>
      last == r.history[Len(r.history)]
  IN  [ has_failed |-> has_failed,
        Feasibility |-> IF has_failed
                        THEN << "Broke Year", fail_rows(r.history)[1].Year >>
                        ELSE << "Infinite" >>,
        FinalValue |-> IF has_failed THEN Zero ELSE last.Value,
        FinalBTCStack |-> IF has_failed THEN Zero ELSE last.BTC,
        SafeSolvency |-> IF r.fi_found THEN << "Year", r.fi_year >> ELSE << "Never" >> ]

\* lines 161-172: df = pd.DataFrame(history) and the metrics
LegacyFinish ==
  /\ page = "legacy" /\ pc = "loop" /\ run.y = LegacyYears
  /\ pc' = "done"
  /\ run' = run @@ [ metrics |-> LegacyMetrics(run) ]
  /\ twin' = twin @@ [ metrics |-> LegacyMetrics(twin) ]
  /\ UNCHANGED <<page, cfg, today, today2>>

(***************************************************************************)
(* Wealth Accelerator: the accumulation loop.                              *)
(***************************************************************************)
WAConfigs ==
  [ start_price : {10, 150},
    initial_lump_sum : {0, 5},
    dca_amount : {Zero, Rat(1, 10)},
    dca_freq : {"Weekly", "Monthly"},
    model_mode : {"Power Law Formula"},
    years_to_model : 1..WAYears,
    edited_growth : {<< >>} ]
  \cup
  [ start_price : {10, 150},
    initial_lump_sum : {0, 5},
    dca_amount : {Zero, Rat(1, 10)},
    dca_freq : {"Weekly", "Monthly"},
    model_mode : {"Manual Cycles"},
    years_to_model : 1..WAYears,
    edited_growth : GrowthTables ]

\* lines 42-44
annual_contrib(c) ==
  IF c.dca_freq = "Weekly" THEN RMul(c.dca_amount, RInt(52))
  ELSE IF c.dca_freq = "Fortnightly" THEN RMul(c.dca_amount, RInt(26))
  ELSE RMul(c.dca_amount, RInt(12))

\* lines 60-61 and 121-123: start_price / (((10**-17) * (days_today**5.82)) / 0.65)
\* line 61 without the anchoring: the median itself is projected
Unanchored(start_price, t) == One

\* lines 60-61 and 121-123
anchor_ratio(start_price, t) ==
  RDiv(RInt(start_price), RDiv(PowerLawUSD(t.days), Rat(65, 100)))

\* lines 68-74 and 133-139
AnchoredPrice(c, start_price, t, curr_price, y) ==
  IF c.model_mode = "Manual Cycles"
  THEN RMul(curr_price, RAdd(One, GrowthRate(c.edited_growth, y)))
  ELSE RMul(RDiv(PowerLawUSD(t.days + y * 365), Rat(65, 100)),
            anchor_ratio(start_price, t))

\* line 65
WARow0(c) ==
  LET btc_stack == RDiv(RInt(c.initial_lump_sum), RInt(c.start_price))
  IN  [ Year |-> 0, BTCPrice |-> RInt(c.start_price), BTCStack |-> btc_stack,
        TotalInvested |-> RInt(c.initial_lump_sum),
        PortfolioValue |-> RMul(btc_stack, RInt(c.start_price)), ROI |-> One ]

\* line 64 up to the read of today and genesis_date
WAVars(c) ==
  [ y |-> 0, btc_stack |-> RDiv(RInt(c.initial_lump_sum), RInt(c.start_price)),
    total_invested_cash |-> RInt(c.initial_lump_sum),
    curr_price |-> RInt(c.start_price), history |-> << >> ]

\* today and genesis_date are assigned on the Power Law branch only (line 60)
DateNamesBound(model_mode) == model_mode = "Power Law Formula"

\* lines 64-65
WAStart(c) == [ WAVars(c) EXCEPT !.history = << WARow0(c) >> ]

\* line 78
Roi(portfolio_val, total_invested_cash) ==
  IF RLt(Zero, total_invested_cash) THEN RDiv(portfolio_val, total_invested_cash)
  ELSE Zero

\* line 76
AvgPrice(prev_price, curr_price) == RDiv(RAdd(prev_price, curr_price), RInt(2))

\* lines 67-79, one iteration
WAIter(c, t, r) ==
  LET y == r.y + 1
      prev_price == r.curr_price
      curr_price == AnchoredPrice(c, c.start_price, t, r.curr_price, y)
      avg_price_of_year == AvgPrice(prev_price, curr_price)
      btc_purchased == RDiv(annual_contrib(c), avg_price_of_year)
      btc_stack == RAdd(r.btc_stack, btc_purchased)
      total_invested_cash == RAdd(r.total_invested_cash, annual_contrib(c))
      portfolio_val == RMul(btc_stack, curr_price)
      roi == Roi(portfolio_val, total_invested_cash)
  IN  [ r EXCEPT
          !.y = y, !.btc_stack = btc_stack,
          !.total_invested_cash = total_invested_cash, !.curr_price = curr_price,
          !.history = Append(r.history,
            [ Year |-> y, BTCPrice |-> curr_price, BTCStack |-> btc_stack,
              TotalInvested |-> total_invested_cash,
              PortfolioValue |-> portfolio_val, ROI |-> roi ]) ]

WASetup ==
  /\ page = "wa" /\ pc = "start"
  /\ IF DateNamesBound(cfg.model_mode)
     THEN /\ run' = WAStart(cfg)
          /\ twin' = WAStart(cfg)
          /\ pc' = "loop"
     ELSE \* NameError: name 'today' is not defined
          /\ run' = WAVars(cfg)
          /\ twin' = WAVars(cfg)
          /\ pc' = "aborted"
  /\ UNCHANGED <<page, cfg, today, today2>>

WAYear ==
  /\ page = "wa" /\ pc = "loop" /\ run.y < cfg.years_to_model
  /\ run' = WAIter(cfg, today, run)
  /\ twin' = WAIter(cfg, today2, twin)
  /\ UNCHANGED <<page, cfg, today, today2, pc>>

\* line 81: df = pd.DataFrame(history)
WAFinish ==
  /\ page = "wa" /\ pc = "loop" /\ run.y = cfg.years_to_model
  /\ pc' = "done"
  /\ UNCHANGED <<page, cfg, today, today2, run, twin>>

(***************************************************************************)
(* Personal Finance: the net-worth loop.                                   *)
(***************************************************************************)
PFConfigs ==
  [ btc_price : {100},
    btc_qty : {5},
    cash_aud : {0, 50},
    salary : {0, 180},
    living : {91},
    cash_interest : {0, 10},
    inflation_rate : {0, 10},
    model_mode : {"Power Law Formula"},
    years_to_model : 1..PFYears,
    edited_growth : {<< >>} ]
  \cup
  [ btc_price : {100},
    btc_qty : {5},
    cash_aud : {0, 50},
    salary : {0, 180},
    living : {91},
    cash_interest : {0, 10},
    inflation_rate : {0, 10},
    model_mode : {"Manual Cycles"},
    years_to_model : 1..PFYears,
    edited_growth : GrowthTables ]

\* line 129
PFRow0(c, t) ==
  LET btc_val == RMul(RInt(c.btc_qty), RInt(c.btc_price))
  IN  [ Year |-> t.year, BTCPrice |-> RInt(c.btc_price),
        TotalNetWorth |-> RAdd(btc_val, RInt(c.cash_aud)),
        BitcoinValue |-> btc_val, CashSavings |-> RInt(c.cash_aud) ]

\* lines 126-129
PFStart(c, t) ==
  [ y |-> 0, curr_btc_price |-> RInt(c.btc_price), curr_cash |-> RInt(c.cash_aud),
    history |-> << PFRow0(c, t) >> ]

\* lines 132-145, one iteration
PFIter(c, t, r) ==
  LET y == r.y + 1
      annual_savings == RInt(c.salary - c.living)
      curr_btc_price == AnchoredPrice(c, c.btc_price, t, r.curr_btc_price, y)
      cash1 == RMul(r.curr_cash, RAdd(One, Rat(c.cash_interest, 100)))
      curr_cash == RAdd(cash1,
                        RMul(annual_savings,
                             RPow(RAdd(One, Rat(c.inflation_rate, 100)), y)))
      btc_holding_val == RMul(RInt(c.btc_qty), curr_btc_price)
      total_loop_nw == RAdd(btc_holding_val, curr_cash)
  IN  [ r EXCEPT
          !.y = y, !.curr_btc_price = curr_btc_price, !.curr_cash = curr_cash,
          !.history = Append(r.history,
            [ Year |-> t.year + y, BTCPrice |-> curr_btc_price,
              TotalNetWorth |-> total_loop_nw, BitcoinValue |-> btc_holding_val,
              CashSavings |-> curr_cash ]) ]

PFSetup ==
  /\ page = "pf" /\ pc = "start"
  /\ run' = PFStart(cfg, today)
  /\ twin' = PFStart(cfg, today2)
  /\ pc' = IF DateNamesBound(cfg.model_mode)
           THEN "loop"
           ELSE "aborted"   \* line 130, NameError: name 'today' is not defined
  /\ UNCHANGED <<page, cfg, today, today2>>

PFYear ==
  /\ page = "pf" /\ pc = "loop" /\ run.y < cfg.years_to_model
  /\ run' = PFIter(cfg, today, run)
  /\ twin' = PFIter(cfg, today2, twin)
  /\ UNCHANGED <<page, cfg, today, today2, pc>>

\* line 147: df_res = pd.DataFrame(history)
PFFinish ==
  /\ page = "pf" /\ pc = "loop" /\ run.y = cfg.years_to_model
  /\ pc' = "done"
  /\ UNCHANGED <<page, cfg, today, today2, run, twin>>

(***************************************************************************)
(* One run of one page.                                                    *)
(***************************************************************************)
ConfigsOf(p) ==
  CASE p = "legacy" -> LegacyConfigs
    [] p = "wa" -> WAConfigs
    [] p = "pf" -> PFConfigs

NoRun == [ y |-> 0, history |-> << >> ]

Init ==
  /\ page \in {"legacy", "wa", "pf"}
  /\ cfg \in ConfigsOf(page)
  /\ today \in Dates
  /\ today2 \in Dates
  /\ pc = "start"
  /\ run = NoRun
  /\ twin = NoRun

Next ==
  \/ LegacySetup \/ LegacyYear \/ LegacyFinish
  \/ WASetup \/ WAYear \/ WAFinish
  \/ PFSetup \/ PFYear \/ PFFinish

Spec == Init /\ [][Next]_vars

(***************************************************************************)
(* Properties of the drawdown ledger.                                      *)
(***************************************************************************)
LegacyRan == page = "legacy" /\ pc # "start"

\* units of BTC the row's gross sale asks for: (Total Drawdown + Tax Paid) / price
UnitsSold(row) == RDiv(RAdd(row.TotalDrawdown, row.TaxPaid), row.ModeledPrice)

\* the row's sale is larger than the holdings carried from the row before
Oversold(prev, row) == RLt(prev.BTC, UnitsSold(row))

\* C1: once a row is Failed, every later row is Failed and every row from it
\* onward holds exactly 0 BTC.
FailedIsAbsorbingWithZeroHoldings ==
  LegacyRan =>
    \A i \in 1..Len(run.history) : \A j \in i..Len(run.history) :
      run.history[i].Status = "Failed" =>
        /\ run.history[j].Status = "Failed"
        /\ run.history[j].BTC = Zero

\* C2: row 0 is Sustainable; in each year the status becomes Failed, with the
\* holdings clamped to 0, exactly when the year's gross unit sale is larger
\* than the holdings carried over; otherwise the status carries over and the
\* holdings fall by the units sold; no row shows negative holdings when the
\* initial holdings are not negative.
StatusMachine ==
  LegacyRan =>
    /\ run.history[1].Status = "Sustainable"
    /\ \A i \in 2..Len(run.history) :
         LET prev == run.history[i - 1]
             row == run.history[i]
         IN  IF Oversold(prev, row)
             THEN row.Status = "Failed" /\ row.BTC = Zero
             ELSE /\ row.Status = prev.Status
                  /\ row.BTC = RSub(prev.BTC, UnitsSold(row))
    /\ (RLe(Zero, run.history[1].BTC) =>
          \A i \in 1..Len(run.history) : RLe(Zero, run.history[i].BTC))

\* C2 witness: a Sustainable row with holdings left is followed by a Failed row
SustainableTurnsFailed ==
  /\ LegacyRan
  /\ \E i \in 2..Len(run.history) :
       /\ run.history[i - 1].Status = "Sustainable"
       /\ RLt(Zero, run.history[i - 1].BTC)
       /\ Oversold(run.history[i - 1], run.history[i])
       /\ run.history[i].Status = "Failed"

\* starting_price 100000, holdings 1, tax 0, inflation 0, net need 20000 a year,
\* 0% manual growth every year
DepletionScenario ==
  /\ page = "legacy"
  /\ cfg.start_price = 100 /\ cfg.initial_btc = 1 /\ cfg.parents_spend = 20
  /\ cfg.kid_allowance = 0 /\ cfg.inflation = 0 /\ cfg.tax_rate = 0
  /\ cfg.model_mode = "Manual Cycles (Custom %)"
  /\ cfg.edited_growth = GrowthTable(FlatGrowth, {})
  /\ cfg.edited_events = << >>

Solvent(row) ==
  /\ RLe(RMul(row.TotalDrawdown, RInt(cfg.safe_withdraw_rate)), row.Value)
  /\ row.Status = "Sustainable"

SolventYears == { i - 1 : i \in { j \in 2..Len(run.history) : Solvent(run.history[j]) } }

\* C4: fi_year is the smallest year whose row is solvent while Sustainable, set
\* once and kept whatever later rows show; without such a year it keeps the
\* sentinel.
FiYearIsFirstSolventYear ==
  LegacyRan =>
    IF SolventYears = {}
    THEN ~run.fi_found /\ run.fi_year = "Not in 50 Years"
    ELSE /\ run.fi_found
         /\ run.fi_year \in SolventYears
         /\ \A y \in SolventYears : run.fi_year <= y

\* C4 witness: the marker is set and a later year is solvent again
FiYearSetAndSolventAgain ==
  /\ LegacyRan /\ run.fi_found
  /\ \E y \in SolventYears : y > run.fi_year

EitherModelYieldsCompleteLedger ==
  page \in {"wa", "pf"} =>
    /\ pc # "aborted"
    /\ (pc = "done" =>
          /\ Len(run.history) = cfg.years_to_model + 1
          /\ \A i \in 1..Len(run.history) :
               run.history[i].Year = run.history[1].Year + (i - 1))

\* C6: in every row of the accumulation ledger, year 0 included, ROI is
\* portfolio value / invested cash when cash was invested and 0 when none was.
RoiGuardInEveryRow ==
  page = "wa" =>
    \A i \in 1..Len(run.history) :
      LET row == run.history[i]
      IN  /\ RLt(Zero, row.TotalInvested) =>
               row.ROI = RDiv(row.PortfolioValue, row.TotalInvested)
          /\ row.TotalInvested = Zero => row.ROI = Zero

\* starting_price 10000, lump sum 0, 1200 a year, 0% manual growth
DcaScenario ==
  /\ page = "wa"
  /\ cfg.start_price = 10 /\ cfg.initial_lump_sum = 0
  /\ annual_contrib(cfg) = Rat(12, 10)
  /\ cfg.model_mode = "Manual Cycles"
  /\ cfg.edited_growth = GrowthTable(FlatGrowth, {})

\* C7: every year buys annual_contrib / ((price[y-1] + price[y]) / 2) units,
\* invested cash is lump sum + y * annual_contrib, portfolio value is
\* holdings * price; the scenario's run yields 0.12 units and ROI 1 in year 1.
AccumulationRecurrence ==
  page = "wa" =>
    /\ \A i \in 2..Len(run.history) :
         LET prev == run.history[i - 1]
             row == run.history[i]
             avg == RDiv(RAdd(prev.BTCPrice, row.BTCPrice), RInt(2))
         IN  /\ row.BTCStack = RAdd(prev.BTCStack, RDiv(annual_contrib(cfg), avg))
             /\ row.TotalInvested =
                  RAdd(RInt(cfg.initial_lump_sum),
                       RMul(RInt(i - 1), annual_contrib(cfg)))
             /\ row.PortfolioValue = RMul(row.BTCStack, row.BTCPrice)
    /\ (DcaScenario /\ pc \in {"done", "aborted"} =>
          /\ Len(run.history) >= 2
          /\ run.history[2].BTCStack = Rat(12, 100)
          /\ run.history[Len(run.history)].ROI = One)

ManualMode == cfg.model_mode \in {"Manual Cycles", "Manual Cycles (Custom %)"}

RowPrice(row) == IF page = "legacy" THEN row.ModeledPrice ELSE row.BTCPrice

StartPrice == IF page = "pf" THEN cfg.btc_price ELSE cfg.start_price

\* the growth table's percent for year i (its first row of that year), 5 if none
TableRate(i) ==
  IF \E k \in 1..Len(cfg.edited_growth) : cfg.edited_growth[k].Year = i
  THEN LET k == CHOOSE k \in 1..Len(cfg.edited_growth) :
                  /\ cfg.edited_growth[k].Year = i
                  /\ \A j \in 1..(k - 1) : cfg.edited_growth[j].Year # i
       IN  Rat(100 + cfg.edited_growth[k].Growth, 100)
  ELSE Rat(105, 100)

RECURSIVE CumulativeGrowth(_)
CumulativeGrowth(n) == IF n = 0 THEN One ELSE RMul(CumulativeGrowth(n - 1), TableRate(n))

\* C8: under Manual Cycles, in each of the three loops, the run is not aborted
\* and the price of year n is starting_price * Product(1 + rate(i)), i = 1..n,
\* with rate 5% for a year the table lacks.
ManualPriceIsCumulativeProduct ==
  ManualMode =>
    /\ pc # "aborted"
    /\ \A i \in 1..Len(run.history) :
         RowPrice(run.history[i]) = RMul(RInt(StartPrice), CumulativeGrowth(i - 1))
    /\ (pc = "done" =>
          Len(run.history) = 1 + (IF page = "legacy" THEN LegacyYears
                                  ELSE cfg.years_to_model))

\* the same on the drawdown page alone
LegacyManualPriceIsCumulativeProduct == page = "legacy" => ManualPriceIsCumulativeProduct

\* C10: the ledger of a run does not depend on the date of the run: a second
\* run of the same configuration on another date builds the same ledger.
LedgerIndependentOfRunDate == run.history = twin.history

(***************************************************************************)
(* Properties of the drawdown loop's cash flows.                           *)
(***************************************************************************)
\* (1 + inflation)^y as a product of y factors
RECURSIVE Indexation(_)
Indexation(y) ==
  IF y = 0 THEN One ELSE RMul(Indexation(y - 1), Rat(100 + cfg.inflation, 100))

\* the amounts the events register holds for year y, added up
RECURSIVE RegisteredAmount(_, _)
RegisteredAmount(k, y) ==
  IF k = 0 THEN 0
  ELSE RegisteredAmount(k - 1, y)
       + (IF cfg.edited_events[k].Year = y THEN cfg.edited_events[k].Amount ELSE 0)

\* C11: in every year y >= 1 the parents cost is parents_spend * (1+inflation)^y,
\* the kids cost is kid_allowance * num_kids * (1+inflation)^y from
\* kids_start_year on and 0 before, the lump sums are the year's registered
\* amount * (1+inflation)^y, and Total Drawdown is the sum of the three.
CashFlowsAreIndexedFromYearZero ==
  LegacyRan =>
    \A i \in 2..Len(run.history) :
      LET y == i - 1
          row == run.history[i]
      IN  /\ row.Year = y
          /\ row.ParentCost = RMul(RInt(cfg.parents_spend), Indexation(y))
          /\ row.KidsCost =
               IF y < cfg.kids_start_year THEN Zero
               ELSE RMul(RMul(RInt(cfg.kid_allowance), RInt(cfg.num_kids)),
                         Indexation(y))
          /\ row.LumpSums =
               RMul(RInt(RegisteredAmount(Len(cfg.edited_events), y)), Indexation(y))
          /\ row.TotalDrawdown =
               RAdd(row.ParentCost, RAdd(row.KidsCost, row.LumpSums))

\* C11 witness: under inflation, a year after the kids' start year with an
\* allowance paid and a lump sum registered
KidsAndLumpSumYearUnderInflation ==
  /\ LegacyRan /\ cfg.inflation > 0 /\ cfg.kid_allowance > 0
  /\ \E i \in 2..Len(run.history) :
       /\ i - 1 > cfg.kids_start_year
       /\ RLt(Zero, run.history[i].KidsCost)
       /\ RLt(Zero, run.history[i].LumpSums)
       /\ RLt(Zero, run.history[i - 1].KidsCost)

\* the sale a row's holdings show: (holdings before - holdings after) * price
SaleShown(prev, row) == RMul(RSub(prev.BTC, row.BTC), row.ModeledPrice)

\* C12: with a tax rate below 100% and a net need >= 0, the gross sale times
\* (1 - tax_rate) is the net need, Tax Paid is gross - net and is >= 0, and
\* at tax_rate 0 the gross sale is the net need and Tax Paid is 0.  The gross
\* sale is read off the holdings in the rows whose sale was not clamped.
GrossUpRecoversNetNeed ==
  (LegacyRan /\ cfg.tax_rate < 100) =>
    \A i \in 2..Len(run.history) :
      LET row == run.history[i]
          prev == run.history[i - 1]
          net == row.TotalDrawdown
          t == Rat(cfg.tax_rate, 100)
      IN  RLe(Zero, net) =>
            /\ RLe(Zero, row.TaxPaid)
            /\ RMul(RAdd(net, row.TaxPaid), RSub(One, t)) = net
            /\ cfg.tax_rate = 0 => row.TaxPaid = Zero
            /\ row.Status = "Sustainable" =>
                 /\ RMul(SaleShown(prev, row), RSub(One, t)) = net
                 /\ row.TaxPaid = RSub(SaleShown(prev, row), net)
                 /\ cfg.tax_rate = 0 => SaleShown(prev, row) = net

\* C12 witness: a year with 0 < tax_rate < 100%, a positive net need and
\* a sale made in full
TaxedSaleMadeInFull ==
  /\ LegacyRan /\ cfg.tax_rate \in 1..99
  /\ \E i \in 2..Len(run.history) :
       /\ run.history[i].Status = "Sustainable"
       /\ RLt(Zero, run.history[i].TotalDrawdown)
       /\ RLt(Zero, run.history[i].TaxPaid)
       /\ RLt(Zero, run.history[i].BTC)

(***************************************************************************)
(* Properties of the anchored power-law projection.                        *)
(***************************************************************************)
PowerLawRun ==
  /\ page \in {"wa", "pf"} /\ pc \in {"loop", "done"}
  /\ cfg.model_mode = "Power Law Formula"

\* the median in USD y years after the run's date; its AUD value divides it
\* by 0.65 in numerator and denominator of the anchored price alike
MedianUSD(y) == PowerLawTable[((today.days - 6511) \div 365) + 1 + y]

\* C13: in anchored power-law mode the price of year 0 is the starting price,
\* the price of year y >= 1 is median(days_today + 365*y) * starting price /
\* median(days_today), and the prices of years 0, 1, ..., horizon are
\* strictly increasing.
AnchoredPricesStartAtSpotAndIncrease ==
  PowerLawRun =>
    /\ run.history[1].BTCPrice = RInt(StartPrice)
    /\ \A i \in 2..Len(run.history) :
         /\ RMul(run.history[i].BTCPrice, RInt(MedianUSD(0)))
              = RMul(RInt(StartPrice), RInt(MedianUSD(i - 1)))
         /\ RLt(run.history[i - 1].BTCPrice, run.history[i].BTCPrice)

\* C13 witness: a finished power-law projection over three years whose
\* starting price is off the median
AnchoredProjectionOverThreeYears ==
  /\ PowerLawRun /\ pc = "done"
  /\ Len(run.history) >= 4
  /\ RInt(StartPrice) # RDiv(RInt(MedianUSD(0)), Rat(65, 100))

(***************************************************************************)
(* Properties of fail_year and the Feasibility metric.                     *)
(***************************************************************************)
\* position of the first Failed row of the ledger, 0 if there is none
FirstFailedRow ==
  IF \E i \in 1..Len(run.history) : run.history[i].Status = "Failed"
  THEN CHOOSE i \in 1..Len(run.history) :
         /\ run.history[i].Status = "Failed"
         /\ \A j \in 1..(i - 1) : run.history[j].Status # "Failed"
  ELSE 0

\* C14: fail_year is never assigned a year: it is None in every state of the
\* drawdown run, failed runs included; the year the Feasibility metric
\* reports is the Year of the first ledger row whose Status is Failed.
FailYearIsNeverAssigned ==
  LegacyRan =>
    /\ run.fail_year = None
    /\ pc = "done" =>
         /\ run.metrics.has_failed <=> FirstFailedRow > 0
         /\ run.metrics.has_failed =>
              run.metrics.Feasibility =
                << "Broke Year", run.history[FirstFailedRow].Year >>

\* C14 witness: a finished run that failed part-way, fail_year still None
FailedRunWithoutFailYear ==
  /\ LegacyRan /\ pc = "done"
  /\ run.status = "Failed" /\ run.fail_year = None
  /\ FirstFailedRow > 2
  /\ run.metrics.Feasibility = << "Broke Year", FirstFailedRow - 1 >>
====
